---- MODULE Spec2Model ----
(***************************************************************************)
(* Model of src/crew_helper.py: the entry point main (lines 192-213), the  *)
(* interactive session controller interactive_role (lines 108-189), the    *)
(* JSON validator validate_json (lines 101-105) and the model client       *)
(* run_ai (lines 71-98).                                                   *)
(*                                                                         *)
(* One run of main is modelled; files of an earlier run may be on disk.    *)
(* The model client and the user are the environment: a call either        *)
(* raises or returns one of a few raw texts,                               *)
(* and the user types one of the choices the prompts distinguish.          *)
(* The constant fields of a CallResult (role, model, ticket preview) are   *)
(* the same in every result of a session and are left out.                 *)
(***************************************************************************)
EXTENDS Integers, Sequences, FiniteSets, TLC

\* ---------------------------------------------------------------- bounds
\* total number of run_ai invocations explored in one session
MaxCalls == 3
\* CONFIG["max_retries"] ranges over 0..MaxRetriesBound
MaxRetriesBound == 2
\* acceptance timestamps (whole seconds) range over 1..NumTs
NumTs == 2

\* ---------------------------------------------------------------- values
\* Python None (json.loads("null"), and validate_json's failure value)
PyNone == "None"
\* a dict key / a file that is not there
Unset == "<unset>"
Absent == "<absent>"

\* raw texts the model client may return (already stripped, line 97)
RawOutputs == {"oops", "{\"milestones\": []}", "{}", "null"}
\* texts the user may paste at "Paste corrected JSON" (line 144)
ManualTexts == {"oops", "{ \"milestones\": [ ] }", "{}"}
\* text typed at "Enter your follow-up or clarification" (line 184)
FollowUpTexts == {"add risks"}
\* the corrective instruction of line 141
Corrective == "Your last output was not valid JSON. Please try again with strictly valid JSON."

\* json.loads: text -> [ok, val]; ok = FALSE stands for the raised exception.
\* Parsed values are named by their compact canonical text.
json_loads(text) ==
    CASE text \in {"{\"milestones\": []}", "{ \"milestones\": [ ] }", "{\n  \"milestones\": []\n}"}
              -> [ok |-> TRUE, val |-> "{\"milestones\":[]}"]
      [] text \in {"{\"prior\": true}", "{\n  \"prior\": true\n}"}
              -> [ok |-> TRUE, val |-> "{\"prior\":true}"]
      [] text = "{}"   -> [ok |-> TRUE, val |-> "{}"]
      [] text = "null" -> [ok |-> TRUE, val |-> PyNone]
      [] OTHER         -> [ok |-> FALSE, val |-> PyNone]

\* json.dump(value, f, indent=2) of a parsed value (line 175)
json_dump(val) ==
    CASE val = "{\"milestones\":[]}" -> "{\n  \"milestones\": []\n}"
      [] val = "{\"prior\":true}"    -> "{\n  \"prior\": true\n}"
      [] val = "{}"                  -> "{}"
      [] val = PyNone                -> "null"
      [] OTHER                       -> val

\* Python truthiness of a parsed value: None, {}, [], 0, false, "" are falsy
Truthy(val) == val \notin {PyNone, "{}", "[]", "0", "false", "\"\""}

\* validate_json (lines 101-105): the parsed value, or None on any exception
validate_json(text) ==
    IF json_loads(text).ok THEN json_loads(text).val ELSE PyNone

\* `result = None` (line 116)
NoResult == [timestamp |-> 0, extra_context |-> "", output_raw |-> "", output_json |-> Unset]

\* the dict returned by run_ai (lines 91-98); timestamp is the call's number
CallResult(ts, ec, raw) ==
    [timestamp |-> ts, extra_context |-> ec, output_raw |-> raw, output_json |-> Unset]

Timestamps == 1..NumTs

\* artifacts left by an earlier accepted session of the same ticket and role
PriorResult ==
    [timestamp |-> 0, extra_context |-> "", output_raw |-> "{\"prior\": true}",
     output_json |-> "{\"prior\":true}"]
NoFinals == [t \in Timestamps |-> Absent]
NoHistories == [t \in Timestamps |-> <<>>]
PriorFinals == [t \in Timestamps |-> IF t = 1 THEN json_dump("{\"prior\":true}") ELSE Absent]
PriorHistories == [t \in Timestamps |-> IF t = 1 THEN <<PriorResult>> ELSE <<>>]

\* ---------------------------------------------------------------- state
VARIABLES
    max_retries,    \* CONFIG["max_retries"]
    pc,             \* position of interactive_role
    extra_context,  \* line 112
    history,        \* line 113
    result,         \* line 116
    attempt,        \* loop variable of line 117
    choice,         \* last answer at the failure prompts (lines 127, 139)
    manual,         \* last pasted correction (line 144)
    action,         \* last answer at the decision prompt (line 165)
    printed,        \* last status message printed
    final_files,    \* artifacts/<base>-<role>-<ts>-final.json, by ts
    history_files,  \* artifacts/<base>-<role>-<ts>-history.json, by ts
    calls,          \* number of run_ai invocations so far
    fate,           \* fate[i]: what became of the i-th invocation
    sent,           \* sent[i]: the extra_context passed to the i-th invocation
    wrote,          \* files this session has written: <<kind, ts>>
    role,           \* the role typed at the prompt of main, normalised (line 208)
    sleeps          \* number of time.sleep(retry_delay) calls so far (line 125)

vars == <<max_retries, pc, extra_context, history, result, attempt, choice,
          manual, action, printed, final_files, history_files, calls, fate, sent,
          wrote, role, sleeps>>

prompts == <<choice, manual, action>>
files == <<final_files, history_files, wrote>>

\* top of `while True` (lines 115-117): with no iteration of the for loop the
\* body is skipped and control reaches line 135
LoopTop == IF max_retries > 0 THEN "calling" ELSE "validating"

Init ==
    /\ max_retries \in 0..MaxRetriesBound
    /\ pc = "main"
    /\ role = ""
    /\ sleeps = 0
    /\ extra_context = ""
    /\ history = <<>>
    /\ result = NoResult
    /\ attempt = 0
    /\ choice = ""
    /\ manual = ""
    /\ action = ""
    /\ printed = ""
    /\ \/ final_files = NoFinals /\ history_files = NoHistories
       \/ final_files = PriorFinals /\ history_files = PriorHistories
    /\ calls = 0
    /\ fate = <<>>
    /\ sent = <<>>
    /\ wrote = {}

\* ---------------------------------------------------------------- main
\* the keys of ROLE_PROMPTS (lines 10-41)
ROLE_PROMPTS == {"highplanner", "featureplanner", "architect", "implementer", "reviewer"}
\* answers typed at "Choose role" (line 208)
RoleInputs == {" Architect", "tester", ""}
\* input(...).strip().lower() (line 208)
StripLower(typed) ==
    CASE typed = " Architect" -> "architect"
      [] OTHER                -> typed

\* main up to the role prompt (lines 192-206): the status record and the
\* ticket document are there or not
MainStart(status_ok, ticket_ok) ==
    /\ pc = "main"
    /\ IF ~status_ok
         THEN /\ printed' = "status.yaml not found."
              /\ pc' = "exit"
         ELSE IF ~ticket_ok
           THEN /\ printed' = "Ticket file not found."
                /\ pc' = "exit"
           ELSE /\ printed' = "Current ticket"
                /\ pc' = "role_prompt"
    /\ UNCHANGED <<max_retries, role, sleeps, extra_context, history, result, attempt,
                   prompts, files, calls, fate, sent>>

\* variant of ChooseRole: any non-empty role starts a session (run_ai has a
\* fallback prompt for roles outside ROLE_PROMPTS)
ChooseRole_AnyNonEmpty(typed) ==
    /\ pc = "role_prompt"
    /\ role' = StripLower(typed)
    /\ IF role' # ""
         THEN /\ pc' = LoopTop
              /\ UNCHANGED printed
         ELSE /\ printed' = "Unknown role"
              /\ pc' = "exit"
    /\ UNCHANGED <<max_retries, sleeps, extra_context, history, result, attempt,
                   prompts, files, calls, fate, sent>>

\* the role prompt (lines 208-213): a known role starts interactive_role
ChooseRole(typed) ==
    /\ pc = "role_prompt"
    /\ role' = StripLower(typed)
    /\ IF role' \in ROLE_PROMPTS
         THEN /\ pc' = LoopTop
              /\ UNCHANGED printed
         ELSE /\ printed' = "Unknown role"
              /\ pc' = "exit"
    /\ UNCHANGED <<max_retries, sleeps, extra_context, history, result, attempt,
                   prompts, files, calls, fate, sent>>

\* ---------------------------------------------------------------- CALLING
\* run_ai returns (lines 119-120)
CallOk(raw) ==
    /\ pc = "calling"
    /\ calls < MaxCalls
    /\ calls' = calls + 1
    /\ result' = CallResult(calls + 1, extra_context, raw)
    /\ fate' = Append(fate, "returned")
    /\ sent' = Append(sent, extra_context)
    /\ pc' = "validating"
    /\ UNCHANGED <<max_retries, role, sleeps, extra_context, history, attempt, prompts, printed, files>>

\* variant of CallFail: the delay is also taken after the last attempt
CallFail_SleepsAlways ==
    /\ pc = "calling"
    /\ calls < MaxCalls
    /\ calls' = calls + 1
    /\ fate' = Append(fate, "raised")
    /\ sent' = Append(sent, extra_context)
    /\ printed' = "AI call failed"
    /\ sleeps' = sleeps + 1
    /\ IF attempt < max_retries - 1
         THEN /\ attempt' = attempt + 1
              /\ pc' = "calling"
         ELSE /\ attempt' = attempt
              /\ pc' = "retry_prompt"
    /\ UNCHANGED <<max_retries, role, extra_context, history, result, prompts, files>>

\* run_ai raises (lines 121-127): sleep and iterate, or ask the user
CallFail ==
    /\ pc = "calling"
    /\ calls < MaxCalls
    /\ calls' = calls + 1
    /\ fate' = Append(fate, "raised")
    /\ sent' = Append(sent, extra_context)
    /\ printed' = "AI call failed"
    /\ IF attempt < max_retries - 1
         THEN /\ sleeps' = sleeps + 1
              /\ attempt' = attempt + 1
              /\ pc' = "calling"
         ELSE /\ sleeps' = sleeps
              /\ attempt' = attempt
              /\ pc' = "retry_prompt"
    /\ UNCHANGED <<max_retries, role, extra_context, history, result, prompts, files>>

\* "Retry manually?" answered y (lines 128-129): `continue` continues the for
\* loop, which has no iteration left, so control falls to line 135
RetryPromptYes ==
    /\ pc = "retry_prompt"
    /\ choice' = "y"
    /\ pc' = "validating"
    /\ UNCHANGED <<max_retries, role, sleeps, extra_context, history, result, attempt, manual,
                   action, printed, files, calls, fate, sent>>

\* variant of RetryPromptNo: declining also saves the history gathered so far
RetryPromptNo_SavesHistory(c) ==
    /\ pc = "retry_prompt"
    /\ c # "y"
    /\ choice' = c
    /\ printed' = "Quit without saving due to repeated errors."
    /\ pc' = "quit"
    /\ history_files' = [history_files EXCEPT ![1] = history]
    /\ wrote' = wrote \cup {<<"history", 1>>}
    /\ UNCHANGED <<max_retries, role, sleeps, extra_context, history, result, attempt, manual,
                   action, final_files, calls, fate, sent>>

\* "Retry manually?" answered anything else (lines 130-132)
RetryPromptNo(c) ==
    /\ pc = "retry_prompt"
    /\ c # "y"
    /\ choice' = c
    /\ printed' = "Quit without saving due to repeated errors."
    /\ pc' = "quit"
    /\ UNCHANGED <<max_retries, role, sleeps, extra_context, history, result, attempt, manual,
                   action, files, calls, fate, sent>>

\* ---------------------------------------------------------------- VALIDATING
SetFate(f, i, v) == [f EXCEPT ![i] = v]

\* variant of Validate: whatever validate_json returns is attached and appended
Validate_AcceptsAnything ==
    /\ pc = "validating"
    /\ IF result = NoResult
         THEN /\ pc' = "crashed"
              /\ printed' = "TypeError"
              /\ UNCHANGED <<result, history, fate>>
         ELSE /\ result' = [result EXCEPT !.output_json = validate_json(result.output_raw)]
              /\ history' = Append(history, result')
              /\ fate' = SetFate(fate, result.timestamp, "validated")
              /\ printed' = "AI Draft (validated JSON)"
              /\ pc' = "awaiting_decision"
    /\ UNCHANGED <<max_retries, role, sleeps, extra_context, attempt, prompts, files, calls, sent>>

\* lines 135-137 and 157-163
Validate ==
    /\ pc = "validating"
    /\ IF result = NoResult
         THEN \* result["output_raw"] on None: TypeError, uncaught
              /\ pc' = "crashed"
              /\ printed' = "TypeError"
              /\ UNCHANGED <<result, history, fate>>
         ELSE IF ~Truthy(validate_json(result.output_raw))
           THEN /\ pc' = "invalid_prompt"
                /\ printed' = "Invalid JSON received from AI."
                /\ UNCHANGED <<result, history, fate>>
           ELSE /\ result' = [result EXCEPT !.output_json = validate_json(result.output_raw)]
                /\ history' = Append(history, result')
                /\ fate' = SetFate(fate, result.timestamp, "validated")
                /\ printed' = "AI Draft (validated JSON)"
                /\ pc' = "awaiting_decision"
    /\ UNCHANGED <<max_retries, role, sleeps, extra_context, attempt, prompts, files, calls, sent>>

\* variant of InvalidRetry: the rejected attempt is appended to history
InvalidRetry_Records ==
    /\ pc = "invalid_prompt"
    /\ choice' = "r"
    /\ extra_context' = Corrective
    /\ fate' = SetFate(fate, result.timestamp, "retried")
    /\ history' = Append(history, result)
    /\ result' = NoResult
    /\ attempt' = 0
    /\ pc' = LoopTop
    /\ UNCHANGED <<max_retries, role, sleeps, manual, action, printed, files, calls, sent>>

\* [r]etry AI (lines 140-142)
InvalidRetry ==
    /\ pc = "invalid_prompt"
    /\ choice' = "r"
    /\ extra_context' = Corrective
    /\ fate' = SetFate(fate, result.timestamp, "retried")
    /\ result' = NoResult
    /\ attempt' = 0
    /\ pc' = LoopTop
    /\ UNCHANGED <<max_retries, role, sleeps, history, manual, action, printed, files, calls, sent>>

\* variant of InvalidFix: the value attached is the parse of the model's own
\* output instead of the pasted correction
InvalidFix_KeepsModelParse(m) ==
    /\ pc = "invalid_prompt"
    /\ choice' = "f"
    /\ manual' = m
    /\ IF json_loads(m).ok
         THEN /\ result' = [result EXCEPT !.output_json = validate_json(result.output_raw)]
              /\ history' = Append(history, result')
              /\ fate' = SetFate(fate, result.timestamp, "fixed")
              /\ printed' = "AI Draft (validated JSON)"
              /\ pc' = "awaiting_decision"
         ELSE /\ printed' = "Still invalid. Quit without saving."
              /\ fate' = SetFate(fate, result.timestamp, "discarded")
              /\ pc' = "quit"
              /\ UNCHANGED <<result, history>>
    /\ UNCHANGED <<max_retries, role, sleeps, extra_context, attempt, action, files, calls, sent>>

\* variant of InvalidFix: a correction that does not parse sends the session
\* round the loop again instead of ending it
InvalidFix_Reprompts(m) ==
    /\ pc = "invalid_prompt"
    /\ choice' = "f"
    /\ manual' = m
    /\ IF json_loads(m).ok
         THEN /\ result' = [result EXCEPT !.output_json = json_loads(m).val]
              /\ history' = Append(history, result')
              /\ fate' = SetFate(fate, result.timestamp, "fixed")
              /\ printed' = "AI Draft (validated JSON)"
              /\ pc' = "awaiting_decision"
              /\ UNCHANGED attempt
         ELSE /\ printed' = "Still invalid. Quit without saving."
              /\ fate' = SetFate(fate, result.timestamp, "discarded")
              /\ result' = NoResult
              /\ attempt' = 0
              /\ pc' = LoopTop
              /\ UNCHANGED history
    /\ UNCHANGED <<max_retries, role, sleeps, extra_context, action, files, calls, sent>>

\* [f]ix manually (lines 143-150, 160-163)
InvalidFix(m) ==
    /\ pc = "invalid_prompt"
    /\ choice' = "f"
    /\ manual' = m
    /\ IF json_loads(m).ok
         THEN /\ result' = [result EXCEPT !.output_json = json_loads(m).val]
              /\ history' = Append(history, result')
              /\ fate' = SetFate(fate, result.timestamp, "fixed")
              /\ printed' = "AI Draft (validated JSON)"
              /\ pc' = "awaiting_decision"
         ELSE /\ printed' = "Still invalid. Quit without saving."
              /\ fate' = SetFate(fate, result.timestamp, "discarded")
              /\ pc' = "quit"
              /\ UNCHANGED <<result, history>>
    /\ UNCHANGED <<max_retries, role, sleeps, extra_context, attempt, action, files, calls, sent>>

\* [q]uit (lines 151-153)
InvalidQuit ==
    /\ pc = "invalid_prompt"
    /\ choice' = "q"
    /\ printed' = "Quit without saving due to invalid JSON."
    /\ fate' = SetFate(fate, result.timestamp, "discarded")
    /\ pc' = "quit"
    /\ UNCHANGED <<max_retries, role, sleeps, extra_context, history, result, attempt, manual,
                   action, files, calls, sent>>

\* variant of InvalidOther: an unknown answer shows the prompt again
InvalidOther_Reprompts ==
    /\ pc = "invalid_prompt"
    /\ choice' = "x"
    /\ printed' = "Invalid option, quitting."
    /\ UNCHANGED <<max_retries, role, sleeps, pc, extra_context, history, result, attempt,
                   manual, action, files, calls, fate, sent>>

\* any other answer (lines 154-156)
InvalidOther ==
    /\ pc = "invalid_prompt"
    /\ choice' = "x"
    /\ printed' = "Invalid option, quitting."
    /\ fate' = SetFate(fate, result.timestamp, "discarded")
    /\ pc' = "quit"
    /\ UNCHANGED <<max_retries, role, sleeps, extra_context, history, result, attempt, manual,
                   action, files, calls, sent>>

\* ---------------------------------------------------------------- AWAITING_DECISION
\* variant of DecideAccept: the final file gets the parse of the raw output
\* instead of result["output_json"]
DecideAccept_RawParse(ts, io) ==
    /\ pc = "awaiting_decision"
    /\ action' = "a"
    /\ CASE io = "ok" ->
              /\ final_files' = [final_files EXCEPT
                                   ![ts] = json_dump(validate_json(result.output_raw))]
              /\ history_files' = [history_files EXCEPT ![ts] = history]
              /\ wrote' = wrote \cup {<<"final", ts>>, <<"history", ts>>}
              /\ printed' = "Accepted."
              /\ pc' = "accepted"
         [] io = "final_fails" ->
              /\ UNCHANGED files
              /\ printed' = "OSError"
              /\ pc' = "crashed"
         [] io = "history_fails" ->
              /\ final_files' = [final_files EXCEPT
                                   ![ts] = json_dump(validate_json(result.output_raw))]
              /\ wrote' = wrote \cup {<<"final", ts>>}
              /\ UNCHANGED history_files
              /\ printed' = "OSError"
              /\ pc' = "crashed"
    /\ UNCHANGED <<max_retries, role, sleeps, extra_context, history, result, attempt, choice,
                   manual, calls, fate, sent>>

\* variant of DecideAccept: after saving, the loop goes on instead of ending
DecideAccept_NoBreak(ts, io) ==
    /\ pc = "awaiting_decision"
    /\ action' = "a"
    /\ CASE io = "ok" ->
              /\ final_files' = [final_files EXCEPT ![ts] = json_dump(result.output_json)]
              /\ history_files' = [history_files EXCEPT ![ts] = history]
              /\ wrote' = wrote \cup {<<"final", ts>>, <<"history", ts>>}
              /\ printed' = "Accepted."
              /\ result' = NoResult
              /\ attempt' = 0
              /\ pc' = LoopTop
         [] io = "final_fails" ->
              /\ UNCHANGED <<files, result, attempt>>
              /\ printed' = "OSError"
              /\ pc' = "crashed"
         [] io = "history_fails" ->
              /\ final_files' = [final_files EXCEPT ![ts] = json_dump(result.output_json)]
              /\ wrote' = wrote \cup {<<"final", ts>>}
              /\ UNCHANGED <<history_files, result, attempt>>
              /\ printed' = "OSError"
              /\ pc' = "crashed"
    /\ UNCHANGED <<max_retries, role, sleeps, extra_context, history, choice,
                   manual, calls, fate, sent>>

\* [a]ccept (lines 167-182).  ts is datetime.now() to the second; io is the
\* outcome of the two open(..., "w") calls, either of which may raise OSError.
DecideAccept(ts, io) ==
    /\ pc = "awaiting_decision"
    /\ action' = "a"
    /\ CASE io = "ok" ->
              /\ final_files' = [final_files EXCEPT ![ts] = json_dump(result.output_json)]
              /\ history_files' = [history_files EXCEPT ![ts] = history]
              /\ wrote' = wrote \cup {<<"final", ts>>, <<"history", ts>>}
              /\ printed' = "Accepted."
              /\ pc' = "accepted"
         [] io = "final_fails" ->
              /\ UNCHANGED files
              /\ printed' = "OSError"
              /\ pc' = "crashed"
         [] io = "history_fails" ->
              /\ final_files' = [final_files EXCEPT ![ts] = json_dump(result.output_json)]
              /\ wrote' = wrote \cup {<<"final", ts>>}
              /\ UNCHANGED history_files
              /\ printed' = "OSError"
              /\ pc' = "crashed"
    /\ UNCHANGED <<max_retries, role, sleeps, extra_context, history, result, attempt, choice,
                   manual, calls, fate, sent>>

\* variant of DecideFollowUp: the text typed is read but not kept
DecideFollowUp_Stale(text) ==
    /\ pc = "awaiting_decision"
    /\ action' = "f"
    /\ text \in FollowUpTexts
    /\ result' = NoResult
    /\ attempt' = 0
    /\ pc' = LoopTop
    /\ UNCHANGED <<max_retries, role, sleeps, extra_context, history, choice, manual, printed,
                   files, calls, fate, sent>>

\* variant of DecideFollowUp: each follow-up round starts a fresh history
DecideFollowUp_ResetsHistory(text) ==
    /\ pc = "awaiting_decision"
    /\ action' = "f"
    /\ extra_context' = text
    /\ history' = <<>>
    /\ result' = NoResult
    /\ attempt' = 0
    /\ pc' = LoopTop
    /\ UNCHANGED <<max_retries, role, sleeps, choice, manual, printed, files, calls, fate, sent>>

\* [f]ollow-up (lines 183-184), then the top of the loop
DecideFollowUp(text) ==
    /\ pc = "awaiting_decision"
    /\ action' = "f"
    /\ extra_context' = text
    /\ result' = NoResult
    /\ attempt' = 0
    /\ pc' = LoopTop
    /\ UNCHANGED <<max_retries, role, sleeps, history, choice, manual, printed, files, calls, fate, sent>>

\* variant of DecideQuit: quitting saves the session as accepting does
DecideQuit_Saves ==
    /\ pc = "awaiting_decision"
    /\ action' = "q"
    /\ printed' = "Quit without saving."
    /\ pc' = "quit"
    /\ final_files' = [final_files EXCEPT ![1] = json_dump(result.output_json)]
    /\ history_files' = [history_files EXCEPT ![1] = history]
    /\ wrote' = wrote \cup {<<"final", 1>>, <<"history", 1>>}
    /\ UNCHANGED <<max_retries, role, sleeps, extra_context, history, result, attempt, choice,
                   manual, calls, fate, sent>>

\* [q]uit without saving (lines 185-187)
DecideQuit ==
    /\ pc = "awaiting_decision"
    /\ action' = "q"
    /\ printed' = "Quit without saving."
    /\ pc' = "quit"
    /\ UNCHANGED <<max_retries, role, sleeps, extra_context, history, result, attempt, choice,
                   manual, files, calls, fate, sent>>

\* variant of DecideOther: the next round starts with an empty extra_context
DecideOther_ClearsContext ==
    /\ pc = "awaiting_decision"
    /\ action' = "x"
    /\ printed' = "Invalid option, try again."
    /\ extra_context' = ""
    /\ result' = NoResult
    /\ attempt' = 0
    /\ pc' = LoopTop
    /\ UNCHANGED <<max_retries, role, sleeps, history, choice, manual, files, calls, fate, sent>>

\* any other answer (lines 188-189): the while loop iterates
DecideOther ==
    /\ pc = "awaiting_decision"
    /\ action' = "x"
    /\ printed' = "Invalid option, try again."
    /\ result' = NoResult
    /\ attempt' = 0
    /\ pc' = LoopTop
    /\ UNCHANGED <<max_retries, role, sleeps, extra_context, history, choice, manual, files, calls, fate, sent>>

Next ==
    \/ \E status_ok, ticket_ok \in BOOLEAN : MainStart(status_ok, ticket_ok)
    \/ \E typed \in RoleInputs : ChooseRole(typed)
    \/ \E raw \in RawOutputs : CallOk(raw)
    \/ CallFail
    \/ RetryPromptYes
    \/ \E c \in {"n", "x"} : RetryPromptNo(c)
    \/ Validate
    \/ InvalidRetry
    \/ \E m \in ManualTexts : InvalidFix(m)
    \/ InvalidQuit
    \/ InvalidOther
    \/ \E ts \in Timestamps, io \in {"ok", "final_fails", "history_fails"} : DecideAccept(ts, io)
    \/ \E text \in FollowUpTexts : DecideFollowUp(text)
    \/ DecideQuit
    \/ DecideOther

Spec == Init /\ [][Next]_vars

TypeOK ==
    /\ max_retries \in 0..MaxRetriesBound
    /\ pc \in {"main", "role_prompt", "exit", "calling", "retry_prompt", "validating", "invalid_prompt",
               "awaiting_decision", "accepted", "quit", "crashed"}
    /\ calls \in 0..MaxCalls
    /\ Len(fate) = calls
    /\ Len(history) <= calls
    /\ sleeps \in 0..calls

\* ---------------------------------------------------------------- properties
Last(s) == s[Len(s)]
Range(s) == {s[i] : i \in 1..Len(s)}
Stopped == pc \in {"accepted", "quit", "crashed"}
WroteFinal(ts) == <<"final", ts>> \in wrote
WroteHistory(ts) == <<"history", ts>> \in wrote
\* the files on disk are those an earlier session left
FilesUntouched ==
    \/ final_files = NoFinals /\ history_files = NoHistories
    \/ final_files = PriorFinals /\ history_files = PriorHistories
\* the value the current CallResult carries was parsed from valid JSON text,
\* the model's own output or the pasted correction
CarriesParsedValue ==
    /\ result # NoResult
    /\ result.output_json # Unset
    /\ \/ /\ json_loads(result.output_raw).ok
          /\ result.output_json = json_loads(result.output_raw).val
       \/ /\ json_loads(manual).ok
          /\ result.output_json = json_loads(manual).val

\* C1: a file of this session exists only if the user chose accept at the
\* decision prompt while the current CallResult carried a value parsed from
\* valid JSON; a session that ended in quit has written no file and has left
\* the files of earlier sessions as they were.
C1_FilesOnlyOnAccept ==
    /\ wrote # {} => /\ action = "a"
                     /\ pc \in {"accepted", "crashed"}
                     /\ CarriesParsedValue
                     /\ Last(history) = result
    /\ wrote = {} => FilesUntouched
    /\ pc = "quit" => wrote = {}

C1_Witness ==
    /\ pc = "accepted"
    /\ wrote # {}
    /\ fate[result.timestamp] = "fixed"

\* C2 (as claimed): once the session has stopped, it has written the final
\* file of a timestamp if and only if it has written the history file of it.
C2_FinalIffHistory ==
    Stopped => \A ts \in Timestamps : WroteFinal(ts) <=> WroteHistory(ts)

\* C3: upon acceptance the content of the final file, read back, equals the
\* output_json of the last CallResult in the content of the history file.
C3_FinalEqualsLastParsed ==
    pc = "accepted" =>
        \E ts \in Timestamps :
            /\ WroteFinal(ts) /\ WroteHistory(ts)
            /\ history_files[ts] # <<>>
            /\ json_loads(final_files[ts]).ok
            /\ json_loads(final_files[ts]).val = Last(history_files[ts]).output_json

C3_Witness ==
    /\ pc = "accepted"
    /\ Len(history) >= 2
    /\ \E i \in 1..Len(fate) : fate[i] \in {"retried", "fixed"}

\* C4 (as claimed): answering y at the manual-retry prompt takes the session
\* back to CALLING.
C4_ManualRetryLoopsBack ==
    [][(pc = "retry_prompt" /\ choice' = "y" /\ pc' # pc) => pc' = "calling"]_vars

\* C5: when every automatic attempt failed and the user declines the manual
\* retry, the session is in QUIT and has created no file, whatever its history.
C5_DeclineWritesNothing ==
    printed = "Quit without saving due to repeated errors." =>
        /\ pc = "quit"
        /\ choice # "y"
        /\ fate # <<>> /\ Last(fate) = "raised"
        /\ wrote = {}
        /\ FilesUntouched

C5_Witness ==
    /\ printed = "Quit without saving due to repeated errors."
    /\ pc = "quit"
    /\ Len(history) > 0

\* C6 (as claimed): the retry/fix/quit prompt for invalid JSON is shown only
\* when parsing the raw output fails.
C6_PromptOnlyOnParseFailure ==
    pc = "invalid_prompt" => ~json_loads(result.output_raw).ok

\* the invocations whose CallResult passed validation or was manually fixed
Kept == {i \in 1..Len(fate) : fate[i] \in {"validated", "fixed"}}
Retried == {i \in 1..Len(fate) : fate[i] = "retried"}
StampsOf(h) == {h[i].timestamp : i \in 1..Len(h)}
InCallOrder(h) == \A i, j \in 1..Len(h) : i < j => h[i].timestamp < h[j].timestamp

\* C7: choosing retry at the invalid-JSON prompt leaves history as it was,
\* sets extra_context to the corrective instruction and returns to CALLING;
\* the history written on acceptance holds exactly the attempts that passed
\* validation or were manually fixed, one entry each, and no retried attempt.
C7_RetriedNotRecorded ==
    /\ [][(pc = "invalid_prompt" /\ choice' = "r" /\ pc' # pc) =>
            /\ history' = history
            /\ extra_context' = Corrective
            /\ pc' = "calling"]_vars
    /\ [](pc = "accepted" =>
            \A ts \in Timestamps : WroteHistory(ts) =>
                /\ StampsOf(history_files[ts]) = Kept
                /\ Len(history_files[ts]) = Cardinality(Kept)
                /\ StampsOf(history_files[ts]) \cap Retried = {})

C7_Witness ==
    /\ pc = "accepted"
    /\ Retried # {}
    /\ Len(history) = 1
    /\ Last(sent) = Corrective

\* C8: a valid manual correction of invalid model output appends exactly one
\* CallResult, the one of that attempt, carrying the manually supplied value,
\* and moves to AWAITING_DECISION; accepting it writes that value as the final
\* file.
C8_ValidFixIsFinal ==
    /\ [][(/\ pc = "invalid_prompt" /\ choice' = "f" /\ pc' # pc
           /\ ~json_loads(result.output_raw).ok
           /\ json_loads(manual').ok) =>
            /\ history' = Append(history, Last(history'))
            /\ Last(history').timestamp = result.timestamp
            /\ Last(history').output_raw = result.output_raw
            /\ Last(history').output_json = json_loads(manual').val
            /\ result.timestamp \notin StampsOf(history)
            /\ pc' = "awaiting_decision"]_vars
    /\ [](/\ pc = "accepted"
          /\ fate[result.timestamp] = "fixed"
          /\ ~json_loads(result.output_raw).ok
          => \E ts \in Timestamps :
                /\ WroteFinal(ts)
                /\ json_loads(final_files[ts]) = json_loads(manual))

C8_Witness ==
    /\ pc = "accepted"
    /\ fate[result.timestamp] = "fixed"
    /\ ~json_loads(result.output_raw).ok
    /\ json_loads(manual).val = "{}"

\* C9: an invalid manual correction of invalid model output ends the session
\* in QUIT with no file written, and no model call is made afterwards.
C9_BadFixQuits ==
    /\ [][(/\ pc = "invalid_prompt" /\ choice' = "f" /\ pc' # pc
           /\ ~json_loads(result.output_raw).ok
           /\ ~json_loads(manual').ok) =>
            /\ pc' = "quit"
            /\ wrote' = {}
            /\ UNCHANGED <<final_files, history_files, calls>>]_vars
    /\ [][pc = "quit" => (pc' = "quit" /\ calls' = calls /\ wrote' = wrote)]_vars

C9_Witness ==
    /\ pc = "quit"
    /\ printed = "Still invalid. Quit without saving."
    /\ ~json_loads(result.output_raw).ok
    /\ ~json_loads(manual).ok
    /\ wrote = {}

\* C10: a follow-up sets extra_context to the text typed and returns to
\* CALLING; a model call is made with the extra_context current at that time,
\* which only the decision prompts change; history only grows at its end; the
\* history written on acceptance is in the order of the model calls.
C10_FollowUpInCallOrder ==
    /\ [][(pc = "awaiting_decision" /\ action' = "f" /\ pc' # pc) =>
            /\ extra_context' \in FollowUpTexts
            /\ history' = history
            /\ pc' = "calling"]_vars
    /\ [][pc = "calling" => extra_context' = extra_context]_vars
    /\ [][calls' # calls =>
            /\ calls' = calls + 1
            /\ sent' = Append(sent, extra_context)
            /\ (pc' = "validating" => result'.extra_context = extra_context)]_vars
    /\ [][history' # history =>
            /\ history' = Append(history, result')
            /\ pc' = "awaiting_decision"]_vars
    /\ [](pc = "accepted" =>
            \A ts \in Timestamps : WroteHistory(ts) =>
                /\ InCallOrder(history_files[ts])
                /\ \A i \in 1..Len(history_files[ts]) :
                      history_files[ts][i].extra_context
                          = sent[history_files[ts][i].timestamp])

C10_Witness ==
    /\ pc = "accepted"
    /\ \E ts \in Timestamps :
          /\ WroteHistory(ts)
          /\ Len(history_files[ts]) = 2
          /\ history_files[ts][1].extra_context = ""
          /\ history_files[ts][2].extra_context \in FollowUpTexts
          /\ history_files[ts][1].timestamp < history_files[ts][2].timestamp

\* C11 (as claimed): an unrecognized answer at the decision prompt changes
\* nothing: the session stays at the prompt with the same result, history and
\* extra_context, and no model call is made.
C11_UnknownDecisionReprompts ==
    [][(pc = "awaiting_decision" /\ action' = "x") =>
            /\ pc' = "awaiting_decision"
            /\ result' = result
            /\ UNCHANGED <<history, extra_context, calls>>]_vars

\* C12 (as claimed): after an unrecognized answer at a failure prompt the
\* session is still at that prompt.
C12_UnknownFailureChoiceReprompts ==
    choice = "x" => pc \in {"invalid_prompt", "retry_prompt"}

\* C12 (amended): an unrecognized answer at a failure prompt ends the session
\* in QUIT with the quit message of that prompt; no file is written and no
\* model call follows.
C12_UnknownFailureChoiceQuits ==
    /\ [](choice = "x" =>
            /\ pc = "quit"
            /\ printed \in {"Invalid option, quitting.",
                            "Quit without saving due to repeated errors."}
            /\ wrote = {}
            /\ FilesUntouched)
    /\ [][(pc \in {"invalid_prompt", "retry_prompt"} /\ choice' = "x") =>
            /\ pc' = "quit"
            /\ UNCHANGED <<calls, history, final_files, history_files>>]_vars

C12_Witness ==
    /\ choice = "x"
    /\ pc = "quit"
    /\ printed = "Invalid option, quitting."
    /\ Len(history) > 0

\* C13: every CallResult in history, and in a history file this session wrote,
\* carries a value that json.loads returned for its own raw output or, when
\* the attempt was manually fixed, for a pasted correction.
ParsedFromValidJson(h) ==
    /\ h.output_json # Unset
    /\ \/ /\ fate[h.timestamp] = "validated"
          /\ json_loads(h.output_raw).ok
          /\ h.output_json = json_loads(h.output_raw).val
       \/ /\ fate[h.timestamp] = "fixed"
          /\ \E m \in ManualTexts :
                json_loads(m).ok /\ h.output_json = json_loads(m).val

C13_HistoryHoldsParsedOnly ==
    /\ \A i \in 1..Len(history) : ParsedFromValidJson(history[i])
    /\ \A ts \in Timestamps : WroteHistory(ts) =>
          \A i \in 1..Len(history_files[ts]) : ParsedFromValidJson(history_files[ts][i])

C13_Witness ==
    /\ Len(history) = 2
    /\ ~json_loads(history[1].output_raw).ok
    /\ fate[history[1].timestamp] = "fixed"
    /\ fate[history[2].timestamp] = "validated"
    /\ \E i \in 1..Len(fate) : fate[i] = "retried"

\* C14: a role outside ROLE_PROMPTS is rejected: main exits with "Unknown
\* role", no session starts, no model call is made and no file is written.
C14_UnknownRoleRejected ==
    /\ []((pc \notin {"main", "role_prompt"} /\ role \notin ROLE_PROMPTS) =>
            /\ pc = "exit"
            /\ calls = 0
            /\ history = <<>>
            /\ wrote = {}
            /\ FilesUntouched)
    /\ [][(pc = "role_prompt" /\ role' \notin ROLE_PROMPTS /\ pc' # pc) =>
            (pc' = "exit" /\ printed' = "Unknown role")]_vars
    /\ [][pc = "exit" => (pc' = "exit" /\ calls' = calls /\ wrote' = wrote)]_vars

C14_Witness ==
    /\ pc = "exit"
    /\ role = "tester"
    /\ printed = "Unknown role"
    /\ calls = 0

\* C15: a CALLING phase makes at most max_retries invocations; a returned call
\* ends it at once; the manual-retry prompt comes only after max_retries
\* failures in a row; the delay is taken after every failed attempt but the
\* one that leads to the prompt.
RaisedCount == Cardinality({i \in 1..Len(fate) : fate[i] = "raised"})
RetryPromptShown ==
    \/ pc = "retry_prompt"
    \/ choice = "y"
    \/ printed = "Quit without saving due to repeated errors."

C15_BoundedAttempts ==
    /\ pc = "calling" =>
          /\ attempt < max_retries
          /\ attempt <= calls
          /\ \A i \in (calls - attempt + 1)..calls : fate[i] = "raised"
    /\ pc = "retry_prompt" =>
          /\ attempt = max_retries - 1
          /\ calls >= max_retries
          /\ \A i \in (calls - max_retries + 1)..calls : fate[i] = "raised"
    /\ (pc = "validating" /\ result # NoResult) =>
          /\ result.timestamp = calls
          /\ fate[calls] = "returned"
    /\ sleeps = RaisedCount - (IF RetryPromptShown THEN 1 ELSE 0)

C15_Witness ==
    /\ pc = "retry_prompt"
    /\ max_retries = 2
    /\ sleeps = 1
    /\ Len(history) = 1

\* C16: history only grows, by one entry at its end, and only on a step from
\* VALIDATING (validation or the invalid-JSON prompt) to AWAITING_DECISION,
\* each of which adds one; the history file written on acceptance is the
\* whole of history, one entry per kept attempt.
C16_HistoryAppendOnly ==
    /\ [][history' # history =>
            /\ pc \in {"validating", "invalid_prompt"}
            /\ pc' = "awaiting_decision"
            /\ Len(history') = Len(history) + 1
            /\ SubSeq(history', 1, Len(history)) = history]_vars
    /\ [][(pc \in {"validating", "invalid_prompt"} /\ pc' = "awaiting_decision") =>
            Len(history') = Len(history) + 1]_vars
    /\ [](pc = "accepted" =>
            /\ Len(history) = Cardinality(Kept)
            /\ \A ts \in Timestamps : WroteHistory(ts) => history_files[ts] = history)

C16_Witness ==
    /\ pc = "accepted"
    /\ Len(history) = 3
    /\ \E ts \in Timestamps : WroteHistory(ts) /\ history_files[ts] = history

\* C17: a session writes at most one final file and at most one history
\* file, and nothing happens after ACCEPTED or QUIT: no model call, no
\* prompt answered, no message, no file write.
FinalsWritten == {w \in wrote : w[1] = "final"}
HistoriesWritten == {w \in wrote : w[1] = "history"}

C17_TerminalStates ==
    /\ [](Cardinality(FinalsWritten) <= 1 /\ Cardinality(HistoriesWritten) <= 1)
    /\ [][(pc = "accepted" \/ pc = "quit") =>
            UNCHANGED <<pc, calls, sent, prompts, printed, files, history>>]_vars

C17_Witness ==
    /\ pc = "accepted"
    /\ Cardinality(FinalsWritten) = 1
    /\ Cardinality(HistoriesWritten) = 1
    /\ calls >= 2

\* C18 (as claimed): a file that exists is never written again, whatever
\* the second in which a later session is accepted.
C18_NeverOverwritten ==
    [][\A ts \in Timestamps :
          /\ final_files[ts] # Absent => final_files'[ts] = final_files[ts]
          /\ history_files[ts] # <<>> => history_files'[ts] = history_files[ts]]_vars

\* C19 (as claimed): whenever the session is in VALIDATING, result is set
\* and is what the latest invocation returned.
C19_ValidatesSetResult ==
    pc = "validating" =>
        /\ result # NoResult
        /\ result.timestamp = calls
        /\ fate[calls] = "returned"

\* C20: the first call is sent the empty extra_context; extra_context changes
\* only on a follow-up (to the text typed) and on an invalid-JSON retry (to
\* the corrective instruction); every call is sent the value current then.
C20_ExtraContextSetters ==
    /\ [](sent # <<>> => sent[1] = "")
    /\ [][extra_context' # extra_context =>
            \/ pc = "awaiting_decision" /\ action' = "f" /\ extra_context' \in FollowUpTexts
            \/ pc = "invalid_prompt" /\ choice' = "r" /\ extra_context' = Corrective]_vars
    /\ [][(pc = "invalid_prompt" /\ choice' = "r" /\ pc' # pc) =>
            extra_context' = Corrective]_vars
    /\ [][(pc = "awaiting_decision" /\ action' = "f" /\ pc' # pc) =>
            extra_context' \in FollowUpTexts]_vars
    /\ [][calls' # calls => sent' = Append(sent, extra_context)]_vars

C20_Witness ==
    /\ Len(sent) = 3
    /\ sent[2] = Corrective
    /\ sent[3] = Corrective
    /\ fate[2] \in {"validated", "fixed"}
    /\ action = "x"

====
